---- MODULE Spec2Model ----
(***************************************************************************)
(* redux-crud-thunk: the five CRUD thunks of one resource (createCrudThunks)*)
(* and the pending / fulfilled / rejected reducers registerCrudReducers     *)
(* attaches to one EntityState (src/src/index.ts).                          *)
(*                                                                          *)
(* The store is single threaded: a dispatch runs the pending reducer at     *)
(* once, the service function's promise settles later, and the settlement   *)
(* runs the fulfilled or the rejected reducer.  Several thunks of the same  *)
(* resource may be in flight and settle in any order.                       *)
(***************************************************************************)
EXTENDS Integers, Sequences, FiniteSets

VARIABLES
    isLoading, error, entityList, selectedEntity,  \* the EntityState of the resource
    requests,   \* the thunks dispatched so far, by request id: operation, argument, status
    awaited,    \* the service function promise the latest payload creator awaits
    action,     \* the action the store reduced last
    prev        \* the EntityState that action was reduced from

vars == <<isLoading, error, entityList, selectedEntity, requests, awaited, action, prev>>

(* ---- bounds ---- *)
MaxRequests == 2   \* dispatches in one behaviour
MaxLen == 2        \* length of entityList and of the array a list call resolves with

(* ---- values ---- *)
Ids == {"1", "2"}
Names == {"a", "b"}
Entities == [id : Ids, name : Names]
undefined == [id |-> "undefined", name |-> "undefined"]
RejectValues == {"E1", "E2"}
ListParameters == [page |-> 1]

CrudAction == {"create", "update", "delete", "list", "get"}

RECURSIVE SeqsUpTo(_)
SeqsUpTo(n) ==
    IF n = 0 THEN {<<>>}
    ELSE LET shorter == SeqsUpTo(n - 1)
         IN  shorter \cup {Append(s, e) : s \in {t \in shorter : Len(t) = n - 1}, e \in Entities}

\* what the thunk of an operation may be dispatched with (CrudThunks<T, IDType>)
ThunkArgs(operation) ==
    IF operation = "list" THEN {ListParameters}
    ELSE IF operation = "get" THEN Ids
    ELSE {[id |-> "1", name |-> "a"]}

\* what the service function of an operation may resolve with (EntityService<T, IDType>):
\* one record, or for list an array of up to MaxLen different records (their ids may repeat)
ServiceResults(operation) ==
    IF operation = "list"
    THEN {s \in SeqsUpTo(MaxLen) : \A i, j \in 1..Len(s) : i # j => s[i] # s[j]}
    ELSE Entities

(* ---- Array.prototype helpers used by the merge policies ---- *)

\* Array.prototype.findIndex with the predicate entity.id === id: 0-based, -1 if none
findIndex(list, id) ==
    IF \E i \in 1..Len(list) : list[i].id = id
    THEN (CHOOSE i \in 1..Len(list) :
            /\ list[i].id = id
            /\ \A j \in 1..(i - 1) : list[j].id # id) - 1
    ELSE -1

\* a splice that treats a negative start as "nothing to remove"
spliceFrom_IgnoreNegative(list, start) ==
    IF start < 0 THEN list ELSE SubSeq(list, 1, IF start > Len(list) THEN Len(list) ELSE start)

\* Array.prototype.splice(start) called with one argument: a negative start counts
\* from the end, and everything from the start position to the end is removed
spliceFrom(list, start) ==
    LET len == Len(list)
        actualStart == IF start < 0
                       THEN (IF len + start < 0 THEN 0 ELSE len + start)
                       ELSE (IF start > len THEN len ELSE start)
    IN  SubSeq(list, 1, actualStart)

(* ---- operationFulfilled: the outcome-merge policies ---- *)

\* a create that skips an entity whose id the list already holds
operationFulfilled_create_Dedup(payload, state) ==
    IF \E i \in 1..Len(state.entityList) : state.entityList[i].id = payload.id
    THEN state
    ELSE [state EXCEPT !.entityList = Append(@, payload)]

operationFulfilled_create(payload, state) ==
    [state EXCEPT !.entityList = Append(@, payload)]

\* an update that replaces the first match only
operationFulfilled_update_FirstOnly(payload, state) ==
    LET i == findIndex(state.entityList, payload.id)
    IN  IF i < 0 THEN state ELSE [state EXCEPT !.entityList[i + 1] = payload]

operationFulfilled_update(payload, state) ==
    LET updatedArray == [i \in 1..Len(state.entityList) |->
                            IF state.entityList[i].id = payload.id
                            THEN payload ELSE state.entityList[i]]
    IN  [state EXCEPT !.entityList = <<>> \o updatedArray]

\* a list that pushes without emptying the array first
operationFulfilled_list_NoClear(payload, state) ==
    [state EXCEPT !.entityList = @ \o payload]

operationFulfilled_list(payload, state) ==
    [state EXCEPT !.entityList = <<>> \o payload]

operationFulfilled_delete(payload, state) ==
    [state EXCEPT !.entityList = spliceFrom(@, findIndex(@, payload.id))]

\* a get that also stores the entity in the list
operationFulfilled_get_AlsoPush(payload, state) ==
    [state EXCEPT !.selectedEntity = payload, !.entityList = Append(@, payload)]

operationFulfilled_get(payload, state) ==
    [state EXCEPT !.selectedEntity = payload]

operationFulfilled(key, payload, state) ==
    CASE key = "create" -> operationFulfilled_create(payload, state)
      [] key = "update" -> operationFulfilled_update(payload, state)
      [] key = "list"   -> operationFulfilled_list(payload, state)
      [] key = "delete" -> operationFulfilled_delete(payload, state)
      [] key = "get"    -> operationFulfilled_get(payload, state)

(* ---- registerCrudReducers: the three cases added for every thunk ---- *)

\* a pending case that forgets to clear the error
pendingCase_KeepError(state) ==
    [state EXCEPT !.isLoading = TRUE]

pendingCase(state) ==
    [state EXCEPT !.isLoading = TRUE, !.error = ""]

\* a fulfilled case that forgets to clear the error
fulfilledCase_KeepError(key, state, payload) ==
    operationFulfilled(key, payload, [state EXCEPT !.isLoading = FALSE])

fulfilledCase(key, state, payload) ==
    operationFulfilled(key, payload, [state EXCEPT !.isLoading = FALSE, !.error = ""])

\* a rejected case that forgets to clear the loading flag
rejectedCase_KeepLoading(state, payload) ==
    [state EXCEPT !.error = payload]

rejectedCase(state, payload) ==
    [state EXCEPT !.error = payload, !.isLoading = FALSE]

(* ---- createCrudThunk ---- *)

\* a payload creator without the try/catch: the rejection escapes as an exception
payloadCreator_NoCatch(outcome) ==
    IF outcome.kind = "resolve"
    THEN [kind |-> "return", value |-> outcome.value]
    ELSE [kind |-> "throw", value |-> outcome.value]

\* the payload creator: await the service function, catch a rejection and hand
\* it to rejectWithValue
payloadCreator(outcome) ==
    IF outcome.kind = "resolve"
    THEN [kind |-> "return", value |-> outcome.value]
    ELSE [kind |-> "rejectWithValue", value |-> outcome.value]

\* the action the thunk dispatches when its payload creator has finished; an
\* exception escaping the payload creator gives a rejected action without payload
createCrudThunk(operation, requestId, arg, outcome) ==
    LET result == payloadCreator(outcome)
    IN  CASE result.kind = "return" ->
               [type |-> "fulfilled", op |-> operation, requestId |-> requestId,
                arg |-> arg, payload |-> result.value]
          [] result.kind = "rejectWithValue" ->
               [type |-> "rejected", op |-> operation, requestId |-> requestId,
                arg |-> arg, payload |-> result.value]
          [] OTHER ->
               [type |-> "rejected", op |-> operation, requestId |-> requestId,
                arg |-> arg, payload |-> "undefined"]

(* ---- the store ---- *)

entityState ==
    [isLoading |-> isLoading, error |-> error,
     entityList |-> entityList, selectedEntity |-> selectedEntity]

setEntityState(state) ==
    /\ isLoading' = state.isLoading
    /\ error' = state.error
    /\ entityList' = state.entityList
    /\ selectedEntity' = state.selectedEntity

\* the slice reducer built from the registered cases
reducer(state, a) ==
    CASE a.type = "pending"   -> pendingCase(state)
      [] a.type = "fulfilled" -> fulfilledCase(a.op, state, a.payload)
      [] a.type = "rejected"  -> rejectedCase(state, a.payload)

Pending(r) == r \in 1..Len(requests) /\ requests[r].status = "pending"

Init ==
    /\ isLoading = FALSE
    /\ error = ""
    /\ entityList = <<>>
    /\ selectedEntity = undefined
    /\ requests = <<>>
    /\ awaited = [kind |-> "none", value |-> undefined]
    /\ prev = [isLoading |-> FALSE, error |-> "", entityList |-> <<>>,
               selectedEntity |-> undefined]
    /\ action = [type |-> "@@INIT", op |-> "", requestId |-> 0,
                 arg |-> undefined, payload |-> undefined]

\* store.dispatch(crudThunks[operation](arg)): the pending action is reduced at once
Dispatch(operation, arg) ==
    /\ Len(requests) < MaxRequests
    /\ LET a == [type |-> "pending", op |-> operation, requestId |-> Len(requests) + 1,
                 arg |-> arg, payload |-> undefined]
       IN  /\ requests' = Append(requests, [op |-> operation, arg |-> arg, status |-> "pending"])
           /\ awaited' = [kind |-> "pending", value |-> undefined]
           /\ action' = a
           /\ prev' = entityState
           /\ setEntityState(reducer(entityState, a))

\* the service function's promise settles and the thunk dispatches its final action
Settle(r, outcome) ==
    /\ Pending(r)
    /\ LET a == createCrudThunk(requests[r].op, r, requests[r].arg, outcome)
       IN  /\ requests' = [requests EXCEPT ![r].status = a.type]
           /\ awaited' = outcome
           /\ action' = a
           /\ prev' = entityState
           /\ setEntityState(reducer(entityState, a))

ServiceResolves ==
    \E r \in 1..MaxRequests :
        /\ Pending(r)
        /\ requests[r].op = "create" => Len(entityList) < MaxLen
        /\ \E v \in ServiceResults(requests[r].op) : Settle(r, [kind |-> "resolve", value |-> v])

ServiceRejects ==
    \E r \in 1..MaxRequests, V \in RejectValues : Settle(r, [kind |-> "reject", value |-> V])

DispatchThunk ==
    \E operation \in CrudAction : \E arg \in ThunkArgs(operation) : Dispatch(operation, arg)

Next == DispatchThunk \/ ServiceResolves \/ ServiceRejects

Spec == Init /\ [][Next]_vars

(***************************************************************************)
(* Properties.  action is the action reduced last, prev the EntityState it  *)
(* was reduced from and awaited the service settlement behind it, so each   *)
(* property relates the state before a handler to the state after it.       *)
(***************************************************************************)

Fulfilled(operation) == action.type = "fulfilled" /\ action.op = operation

HasId(list, id) == \E i \in 1..Len(list) : list[i].id = id

\* the 1-based position of the first element of list with the id
FirstWithId(list, id) ==
    CHOOSE i \in 1..Len(list) : list[i].id = id /\ \A j \in 1..(i - 1) : list[j].id # id

RemoveAt(list, i) == SubSeq(list, 1, i - 1) \o SubSeq(list, i + 1, Len(list))

\* C1: a fulfilled delete(E) on a list holding an element with E.id removes exactly
\* the first such element and keeps all others in order (the list shrinks by one).
C1_DeleteRemovesExactlyFirstMatch ==
    (Fulfilled("delete") /\ HasId(prev.entityList, action.payload.id)) =>
        /\ entityList = RemoveAt(prev.entityList, FirstWithId(prev.entityList, action.payload.id))
        /\ Len(entityList) = Len(prev.entityList) - 1

\* C2: a fulfilled update(E') keeps the length, puts E' at every index whose element
\* has E'.id and leaves every other element alone; without a match the list is unchanged.
C2_UpdateReplacesInPlace ==
    Fulfilled("update") =>
        /\ Len(entityList) = Len(prev.entityList)
        /\ \A i \in 1..Len(prev.entityList) :
              entityList[i] = IF prev.entityList[i].id = action.payload.id
                              THEN action.payload ELSE prev.entityList[i]
        /\ ~HasId(prev.entityList, action.payload.id) => entityList = prev.entityList

C2_Witness ==
    /\ Fulfilled("update")
    /\ Len(prev.entityList) = 2
    /\ prev.entityList[1].id # action.payload.id
    /\ prev.entityList[2].id = action.payload.id
    /\ prev.entityList[2] # action.payload
    /\ entityList = <<prev.entityList[1], action.payload>>

\* C3: a fulfilled create leaves entityList equal to the prior list with the entity
\* the service returned appended last (no deduplication), isLoading false, error "".
C3_CreateAppends ==
    Fulfilled("create") =>
        /\ action.payload = awaited.value
        /\ entityList = Append(prev.entityList, action.payload)
        /\ isLoading = FALSE
        /\ error = ""

C3_Witness ==
    /\ Fulfilled("create")
    /\ Len(entityList) = 2
    /\ entityList[1] = entityList[2]
    /\ requests[1].op = "create" /\ requests[2].op = "create"

\* C4: a fulfilled list makes entityList exactly the returned sequence whatever it
\* held before, so of two lists in flight the one fulfilled last decides the list.
C4_ListReplaces ==
    Fulfilled("list") =>
        /\ action.payload = awaited.value
        /\ entityList = action.payload

C4_Witness ==
    /\ Fulfilled("list")
    /\ action.requestId = 1
    /\ Len(requests) = 2
    /\ requests[2].op = "list" /\ requests[2].status = "fulfilled"
    /\ Len(prev.entityList) = 2
    /\ Len(entityList) = 1
    /\ entityList[1] # prev.entityList[1]

\* C5: no phase of get changes entityList, and a fulfilled get sets selectedEntity
\* to the entity the service resolved with.
C5_GetSelectsAndKeepsList ==
    /\ (action.op = "get" => entityList = prev.entityList)
    /\ (Fulfilled("get") => /\ action.payload = awaited.value
                            /\ selectedEntity = action.payload)

C5_Witness ==
    /\ Fulfilled("get")
    /\ selectedEntity.id # action.arg
    /\ selectedEntity # prev.selectedEntity
    /\ Len(entityList) = 2

\* C6: for each operation, after its pending handler isLoading = TRUE and error = "",
\* after its rejected handler isLoading = FALSE and error = the rejected value, after
\* its fulfilled handler isLoading = FALSE and error = "".
C6_PhaseFlags ==
    action.op \in CrudAction =>
        /\ action.type = "pending"   => (isLoading = TRUE /\ error = "")
        /\ action.type = "rejected"  => (isLoading = FALSE /\ error = action.payload)
        /\ action.type = "fulfilled" => (isLoading = FALSE /\ error = "")

C6_Witness ==
    /\ action.type = "fulfilled"
    /\ prev.error # ""
    /\ error = ""
    /\ isLoading = FALSE

\* C7: a service rejection with V settles the action as rejected carrying V, ends
\* with error = V and isLoading = FALSE and leaves entityList and selectedEntity as
\* they were; a service resolution settles the action as fulfilled with the value.
C7_RejectionPassedThrough ==
    /\ awaited.kind = "reject" =>
          /\ action.type = "rejected"
          /\ action.payload = awaited.value
          /\ error = awaited.value
          /\ isLoading = FALSE
          /\ entityList = prev.entityList
          /\ selectedEntity = prev.selectedEntity
    /\ awaited.kind = "resolve" =>
          /\ action.type = "fulfilled"
          /\ action.payload = awaited.value

C7_Witness ==
    /\ awaited.kind = "reject"
    /\ requests[action.requestId].status = "rejected"
    /\ error = "E2"
    /\ prev.isLoading = TRUE
    /\ Len(entityList) = 2

AnyPending == \E r \in 1..Len(requests) : Pending(r)

\* C8: from the dispatch of an operation until it settles isLoading is TRUE, also
\* while other operations of the resource are dispatched and settle.
C8_LoadingWhileAnyPending ==
    AnyPending => isLoading = TRUE

\* C8 as amended: isLoading is TRUE from a dispatch until the next settlement of any
\* operation of the resource, and FALSE from that settlement until the next dispatch,
\* whether or not other operations are still in flight.
C8_LoadingUntilNextSettlement ==
    /\ isLoading = (action.type = "pending")
    /\ isLoading => Pending(action.requestId)

C8_Witness ==
    /\ Len(requests) = 2
    /\ Pending(1) /\ Pending(2)
    /\ isLoading = TRUE

\* C9: a fulfilled delete whose entity's id matches no element removes exactly the
\* last element of a non-empty list and leaves an empty list empty.
C9_DeleteWithoutMatchRemovesLast ==
    (Fulfilled("delete") /\ ~HasId(prev.entityList, action.payload.id)) =>
        entityList = IF Len(prev.entityList) = 0 THEN <<>>
                     ELSE SubSeq(prev.entityList, 1, Len(prev.entityList) - 1)

C9_Witness ==
    /\ Fulfilled("delete")
    /\ ~HasId(prev.entityList, action.payload.id)
    /\ Len(prev.entityList) = 2
    /\ entityList = <<prev.entityList[1]>>

\* C10: in every reachable state isLoading = TRUE implies error = "".
C10_LoadingImpliesNoError ==
    isLoading = TRUE => error = ""

C10_Witness ==
    /\ isLoading = TRUE
    /\ prev.error # ""
    /\ prev.isLoading = FALSE

====
